---- MODULE Spec2Model ----
(***************************************************************************)
(* Model of api/index.py: the portfolio application's four request         *)
(* handlers (home, admin, delete_project, contact_me) over the Project     *)
(* table, the object store and the mailer.                                 *)
(*                                                                         *)
(* Strings that the code takes apart (uploaded filenames) are sequences of *)
(* one-character strings; strings it only compares or copies are TLA+      *)
(* strings.                                                                *)
(***************************************************************************)
EXTENDS Integers, Sequences, FiniteSets, TLC

VARIABLES
    backend,    \* which database engine SQLALCHEMY_DATABASE_URI selects
    projects,   \* rows of the Project table
    idseq,      \* last value handed out by the id sequence (postgres)
    blobs,      \* objects in the object store: [bucket, key, content_type]
    outbox,     \* messages the mail server accepted
    req,        \* the request being answered (last request of the run)
    resp,       \* the response to req, with what the handler did
    wk          \* delete requests in flight, one per server worker

vars == <<backend, projects, idseq, blobs, outbox, req, resp, wk>>

----------------------------------------------------------------------------
(* Bounds *)

\* Largest Project id the model hands out.
MaxId == 2

----------------------------------------------------------------------------
(* Program constants *)

HTTP_OK == 200
HTTP_REDIRECT == 302
HTTP_FORBIDDEN == 403
HTTP_NOT_FOUND == 404
HTTP_SERVER_ERROR == 500

\* The admin secret both gates compare against.
ADMIN_SECRET == "1234"

\* request.args.get('admin') when the query string has no admin parameter.
NoParam == "<None>"

UPLOAD_BUCKET == "project-images"
PUBLIC_URL_BUCKET == "my-portfolio-storage"
ALLOWED_EXTENSIONS == { <<"j","p","g">>, <<"p","n","g">>, <<"j","p","e","g">> }
MAIL_TO == "kenengbusiness@gmail.com"
MAIL_USERNAME == "EMAIL_SERVER"
SUPABASE_URL == "SUPABASE_URL"

----------------------------------------------------------------------------
(* Characters and filenames *)

LowerOf == [c \in {"A","B","G","H","J","N","O","P","T"} |->
              CASE c = "A" -> "a" [] c = "B" -> "b" [] c = "G" -> "g"
                [] c = "H" -> "h" [] c = "J" -> "j" [] c = "N" -> "n"
                [] c = "O" -> "o" [] c = "P" -> "p" [] c = "T" -> "t"]

\* str.lower() on one character.
LowerChar(c) == IF c \in DOMAIN LowerOf THEN LowerOf[c] ELSE c

\* str.lower()
Lower(s) == [i \in 1..Len(s) |-> LowerChar(s[i])]

\* str.endswith
EndsWith(s, suffix) ==
    /\ Len(suffix) <= Len(s)
    /\ SubSeq(s, Len(s) - Len(suffix) + 1, Len(s)) = suffix

AsciiSafe == {"a","b","d","e","g","h","j","n","o","p","t","x",
              "A","B","G","H","J","N","O","P","T",
              "0","1","_",".","-"}

\* unicodedata.normalize("NFKD", c).encode("ascii", "ignore"): an accented
\* letter keeps its base letter, any other non-ASCII character is dropped.
\* "U+00E9" (e with acute accent) and "U+2713" (check mark) each stand for
\* one character.
AsciiFold(c) == IF c = "U+00E9" THEN <<"e">>
                ELSE IF c = "U+2713" THEN <<>>
                ELSE <<c>>

RECURSIVE FoldAll(_)
FoldAll(s) == IF s = <<>> THEN <<>> ELSE AsciiFold(Head(s)) \o FoldAll(Tail(s))

\* filename.replace(os.sep, " ")
ReplaceSep(s) == [i \in 1..Len(s) |-> IF s[i] = "/" THEN " " ELSE s[i]]

\* "_".join(s.split()): runs of whitespace become one "_", none at the ends.
RECURSIVE JoinWords(_, _, _)
JoinWords(s, acc, pending) ==
    IF s = <<>> THEN acc
    ELSE IF Head(s) = " "
         THEN JoinWords(Tail(s), acc, acc # <<>>)
         ELSE JoinWords(Tail(s),
                        acc \o (IF pending THEN <<"_">> ELSE <<>>) \o <<Head(s)>>,
                        FALSE)

\* _filename_ascii_strip_re.sub("", s): drop all but [A-Za-z0-9_.-]
StripUnsafe(s) == SelectSeq(s, LAMBDA c : c \in AsciiSafe)

RECURSIVE LStrip(_)
LStrip(s) == IF s # <<>> /\ Head(s) \in {".", "_"} THEN LStrip(Tail(s)) ELSE s

RECURSIVE RStrip(_)
RStrip(s) == IF s # <<>> /\ s[Len(s)] \in {".", "_"}
             THEN RStrip(SubSeq(s, 1, Len(s) - 1)) ELSE s

\* werkzeug.utils.secure_filename
secure_filename(s) ==
    RStrip(LStrip(StripUnsafe(JoinWords(ReplaceSep(FoldAll(s)), <<>>, FALSE))))

----------------------------------------------------------------------------
(* Requests the model draws *)

\* form.<field>.data of a field the request did not carry.
NoData == "<missing>"

\* request.files without an image part.
NoFile == [present |-> FALSE, filename |-> <<>>, content_type |-> ""]

File(name, ctype) == [present |-> TRUE, filename |-> name, content_type |-> ctype]

PhotoPng == File(<<"p","h","o","t","o",".","p","n","g">>, "image/png")
UpperPng == File(<<"P","H","O","T","O",".","P","N","G">>, "image/png")
PathJpg  == File(<<".",".","/","a"," ","b",".","j","p","g">>, "image/jpeg")
AccentJpeg == File(<<"U+00E9","U+2713",".","j","p","e","g">>, "image/jpeg")
NotesTxt == File(<<"n","o","t","e",".","t","x","t">>, "text/plain")
BarePng  == File(<<"p","n","g">>, "image/png")
Unnamed  == File(<<>>, "application/octet-stream")

UploadForm(u, t, d, i) == [project_url |-> u, title |-> t, description |-> d, image |-> i]

ValidUploadForms ==
    { UploadForm("https://example.com", t, "A demo", PhotoPng) : t \in {"My App", "Other"} }
    \cup { UploadForm("https://example.com", "My App", "A demo", i) :
             i \in {PathJpg, UpperPng, AccentJpeg} }

InvalidUploadForms ==
    { UploadForm("https://example.com", "My App", "A demo", i) :
          i \in {NotesTxt, BarePng, Unnamed, NoFile} }
    \cup { UploadForm("", "My App", "A demo", PhotoPng),
           UploadForm("https://example.com", " ", "A demo", PhotoPng),
           UploadForm("https://example.com", "My App", NoData, PhotoPng) }

ContactForm(n, e, m) == [name |-> n, email |-> e, message |-> m]

ValidContactForms ==
    { ContactForm("Ada", "ada@example.com", m) : m \in {"Hi", "Hello"} }

InvalidContactForms ==
    { ContactForm("Ada", "ada@example.com", m) : m \in {"", NoData} }
    \cup { ContactForm(n, "ada@example.com", "Hi") : n \in {"", " "} }
    \cup { ContactForm("Ada", e, "Hi") : e \in {"", NoData} }

NoForm == [empty |-> TRUE]

AdminKeys == {NoParam, ADMIN_SECRET, "wrong"}
Methods == {"GET", "POST"}

\* <int:project_id> matches the non-negative integers.
RequestIds == 0..MaxId

Request(op, method, key, csrf, form, id) ==
    [op |-> op, method |-> method, admin |-> key, csrf |-> csrf,
     form |-> form, project_id |-> id]

\* The requests to /admin the model draws: every form submitted with the
\* secret, and a valid and an invalid form with every other combination of
\* key, method and CSRF token.
AdminRequests ==
    { Request("admin", "POST", ADMIN_SECRET, TRUE, f, 0) :
          f \in ValidUploadForms \cup InvalidUploadForms }
    \cup { Request("admin", m, k, c, f, 0) :
             m \in Methods, k \in AdminKeys, c \in BOOLEAN,
             f \in { UploadForm("https://example.com", "My App", "A demo", PhotoPng),
                     UploadForm(NoData, NoData, NoData, NoFile) } }

ContactRequests ==
    { Request("contact", "POST", NoParam, TRUE, f, 0) :
          f \in ValidContactForms \cup InvalidContactForms }
    \cup { Request("contact", m, NoParam, c, f, 0) :
             m \in Methods, c \in BOOLEAN,
             f \in { ContactForm("Ada", "ada@example.com", "Hi"),
                     ContactForm(NoData, NoData, NoData) } }

----------------------------------------------------------------------------
(* Form validation *)

\* str.strip() on a text field's value.
StripText(s) == IF s = " " THEN "" ELSE s

\* wtforms.validators.DataRequired: the data is truthy and, for a string,
\* not whitespace only.
DataRequired(data) == data # NoData /\ data # "" /\ StripText(data) # ""

\* flask_wtf.file.FileRequired: the data is a FileStorage with a filename.
FileRequired(f) == f.present /\ f.filename # <<>>

\* The image field without its extension validator.
FileAllowed_Any(f, exts) == TRUE

\* flask_wtf.file.FileAllowed: the lower-cased filename ends with "." and one
\* of the allowed extensions.
FileAllowed(f, exts) ==
    \/ ~(f.present /\ f.filename # <<>>)
    \/ \E x \in exts : EndsWith(Lower(f.filename), <<".">> \o x)

\* FlaskForm.is_submitted
is_submitted(r) == r.method = "POST"

\* UploadProject.validate_on_submit
UploadProject_validate(r) ==
    /\ is_submitted(r)
    /\ r.csrf
    /\ DataRequired(r.form.project_url)
    /\ DataRequired(r.form.title)
    /\ DataRequired(r.form.description)
    /\ FileRequired(r.form.image)
    /\ FileAllowed(r.form.image, ALLOWED_EXTENSIONS)

\* The contact form with no validator on its email field.
ContactMe_validate_NoEmail(r) ==
    /\ is_submitted(r)
    /\ r.csrf
    /\ DataRequired(r.form.name)
    /\ DataRequired(r.form.message)

\* ContactMe.validate_on_submit
ContactMe_validate(r) ==
    /\ is_submitted(r)
    /\ r.csrf
    /\ DataRequired(r.form.name)
    /\ DataRequired(r.form.email)
    /\ DataRequired(r.form.message)

----------------------------------------------------------------------------
(* The Project table, the object store, the mailer *)

Ids(ps) == { p.id : p \in ps }

MaxOf(S) == IF S = {} THEN 0 ELSE CHOOSE m \in S : \A n \in S : n <= m

\* The primary key the database gives the next row: sqlite's rowid is one
\* more than the largest id in the table, postgres draws from a sequence.
NextId == IF backend = "sqlite" THEN MaxOf(Ids(projects)) + 1 ELSE idseq + 1

\* The row built with title and description crossed.
Project_Crossed(id, url, title, description, image) ==
    [id |-> id, project_url |-> url, title |-> description,
     description |-> title, image |-> image]

\* Project(project_url=..., title=..., description=..., image=...)
Project(id, url, title, description, image) ==
    [id |-> id, project_url |-> url, title |-> title,
     description |-> description, image |-> image]

\* db.session.add(new_project); db.session.commit()
InsertProject(ps, row) == ps \cup {row}

\* The lookup as Project.query.first(): a row whatever the id.
GetById_First(ps, id) == IF ps = {} THEN {} ELSE {CHOOSE p \in ps : TRUE}

\* Project.query.get(project_id): the rows with that primary key.
GetById(ps, id) == { p \in ps : p.id = id }

\* The delete keyed on the title instead of the primary key.
DeleteProject_ByTitle(ps, row) == { p \in ps : p.title # row.title }

\* The delete without its WHERE clause.
DeleteProject_All(ps, row) == {}

\* db.session.delete(project); db.session.commit(): DELETE ... WHERE id = :id
DeleteProject(ps, row) == { p \in ps : p.id # row.id }

\* Project.query.all()
QueryAll(ps) == ps

\* The upload call left out.
StorageUpload_Dropped(bs, bucket, path, ctype) == bs

\* supabase.storage.from_(bucket).upload(path, file, file_options)
StorageUpload(bs, bucket, path, ctype) ==
    bs \cup { [bucket |-> bucket, key |-> path, content_type |-> ctype] }

\* supabase.storage.from_(bucket).get_public_url(path)
get_public_url(bucket, path) ==
    [base |-> SUPABASE_URL, bucket |-> bucket, key |-> path]

\* The bucket admin() uploads the image to.
UploadBucket == UPLOAD_BUCKET

\* The bucket admin() resolves the image's public URL in.
PublicUrlBucket == PUBLIC_URL_BUCKET

\* Whether the object store holds the object a public URL names.
UrlResolves(bs, url) == \E b \in bs : b.bucket = url.bucket /\ b.key = url.key

\* The EmailMessage contact_me() builds.
EmailMessage(f) ==
    [subject |-> <<"New Portfolio Message from ", f.name>>,
     body |-> <<"Name: ", f.name, "\nEmail: ", f.email, "\n\nMessage:\n", f.message>>,
     from_email |-> MAIL_USERNAME,
     to |-> <<MAIL_TO>>,
     reply_to |-> <<f.email>>]

\* The gate with a truthiness test in place of the comparison.
isAdmin_AnyKey(key) == key # NoParam

\* The admin gate of admin() and delete_project()
isAdmin(key) == key = ADMIN_SECRET

----------------------------------------------------------------------------
(* Responses *)

NoUrl == [base |-> "", bucket |-> "", key |-> <<>>]

Response(op, status, body) ==
    [op |-> op, status |-> status, body |-> body,
     flash |-> {},          \* categories flashed by this request
     blob |-> "none",       \* the storage upload: none, ok, failed
     insert |-> "none",     \* the INSERT: none, ok, failed
     dispatch |-> "none",   \* msg.send(): none, ok, failed
     image |-> NoUrl,       \* image_url of the row built
     listing |-> {},        \* projects handed to index.html
     is_admin |-> FALSE]    \* is_admin handed to the template

Unauthorized(op) == Response(op, HTTP_FORBIDDEN, "Unauthorized")
Redirect(op) == Response(op, HTTP_REDIRECT, "redirect:home")
Render(op, template) == Response(op, HTTP_OK, template)
NotFound(op) == Response(op, HTTP_NOT_FOUND, "Not Found")
InternalError(op) == Response(op, HTTP_SERVER_ERROR, "Internal Server Error")

----------------------------------------------------------------------------
(* Workers of the concurrent server *)

Workers == {1, 2}

\* pc: where the worker is in delete_project(); row: the Project its lookup
\* loaded; existed: the table held the id when the request arrived; raced:
\* another authorized delete of the same id was in flight at some time
\* during this one.
IdleWorker == [pc |-> "idle", project_id |-> 0, row |-> {}, status |-> 0,
               existed |-> FALSE, raced |-> FALSE]

----------------------------------------------------------------------------
(* Initial state *)

Init ==
    /\ backend \in {"sqlite", "postgres"}
    /\ projects = {}
    /\ idseq = 0
    /\ blobs = {}
    /\ outbox = {}
    /\ req = Request("start", "GET", NoParam, FALSE, NoForm, 0)
    /\ resp = Response("start", 0, "")
    /\ wk = [w \in Workers |-> IdleWorker]

----------------------------------------------------------------------------
(* Handlers *)

\* home(): GET/POST /
Home(method, key) ==
    /\ req' = Request("home", method, key, FALSE, NoForm, 0)
    /\ resp' = [Render("home", "index.html") EXCEPT
                   !.listing = QueryAll(projects),
                   !.is_admin = (key = ADMIN_SECRET)]
    /\ UNCHANGED <<backend, projects, idseq, blobs, outbox, wk>>

\* admin(): GET/POST /admin
Admin(r) ==
    LET key == r.admin
        form == r.form
        f == form.image
        filename == secure_filename(f.filename)
        image_url == get_public_url(PublicUrlBucket, filename)
        new_project == Project(NextId, form.project_url, form.title,
                               form.description, image_url)
    IN
    /\ req' = r
    /\ IF ~isAdmin(key)
       THEN /\ resp' = Unauthorized("admin")
            /\ UNCHANGED <<projects, idseq, blobs>>
       ELSE IF ~UploadProject_validate(r)
       THEN /\ resp' = Render("admin", "admin.html")
            /\ UNCHANGED <<projects, idseq, blobs>>
       ELSE /\ NextId <= MaxId
            /\ \/ \* the upload raises: the request ends in the 500 handler
                  /\ resp' = [InternalError("admin") EXCEPT !.blob = "failed"]
                  /\ UNCHANGED <<projects, idseq, blobs>>
               \/ \* the upload succeeds, the commit raises
                  /\ blobs' = StorageUpload(blobs, UploadBucket, filename, f.content_type)
                  /\ resp' = [InternalError("admin") EXCEPT
                                 !.blob = "ok", !.insert = "failed",
                                 !.image = image_url]
                  /\ UNCHANGED <<projects, idseq>>
               \/ \* both succeed
                  /\ blobs' = StorageUpload(blobs, UploadBucket, filename, f.content_type)
                  /\ projects' = InsertProject(projects, new_project)
                  /\ idseq' = IF backend = "postgres" THEN NextId ELSE idseq
                  /\ resp' = [Redirect("admin") EXCEPT
                                 !.blob = "ok", !.insert = "ok",
                                 !.image = image_url]
    /\ UNCHANGED <<backend, outbox, wk>>

\* delete_project(): POST /delete/<int:project_id>
Delete(key, project_id) ==
    LET found == GetById(projects, project_id) IN
    /\ req' = Request("delete", "POST", key, FALSE, NoForm, project_id)
    /\ IF ~isAdmin(key)
       THEN /\ resp' = Unauthorized("delete")
            /\ UNCHANGED projects
       ELSE IF found = {}
       THEN /\ resp' = NotFound("delete")
            /\ UNCHANGED projects
       ELSE /\ projects' = DeleteProject(projects, CHOOSE p \in found : TRUE)
            /\ resp' = Redirect("delete")
    /\ UNCHANGED <<backend, idseq, blobs, outbox, wk>>

\* msg.send() returned: flash success, redirect to home
SendSucceeded ==
    [Redirect("contact") EXCEPT !.dispatch = "ok", !.flash = {"success"}]

\* msg.send() raised with no except clause around it.
SendFailed_Propagates ==
    [InternalError("contact") EXCEPT !.dispatch = "failed"]

\* msg.send() raised: the except clause flashes danger and the handler falls
\* through to rendering the form
SendFailed ==
    [Render("contact", "contact.html") EXCEPT
        !.dispatch = "failed", !.flash = {"danger"}]

\* contact_me(): GET/POST /contact_me
Contact(r) ==
    LET form == r.form IN
    /\ req' = r
    /\ IF ~ContactMe_validate(r)
       THEN /\ resp' = Render("contact", "contact.html")
            /\ UNCHANGED outbox
       ELSE \/ \* msg.send() returns
               /\ outbox' = outbox \cup {EmailMessage(form)}
               /\ resp' = SendSucceeded
            \/ \* msg.send() raises
               /\ resp' = SendFailed
               /\ UNCHANGED outbox
    /\ UNCHANGED <<backend, projects, idseq, blobs, wk>>

HomeStep == \E k \in AdminKeys : Home("GET", k)
AdminStep == \E r \in AdminRequests : Admin(r)
DeleteStep == \E k \in AdminKeys, id \in RequestIds : Delete(k, id)
ContactStep == \E r \in ContactRequests : Contact(r)

Next == HomeStep \/ AdminStep \/ DeleteStep

Spec == Init /\ [][Next]_vars

----------------------------------------------------------------------------
(* The contact form, beside a store that uploads fill *)

SampleUpload ==
    Request("admin", "POST", ADMIN_SECRET, TRUE,
            UploadForm("https://example.com", "My App", "A demo", PhotoPng), 0)

SampleUploadStep == Admin(SampleUpload)

NextContact == ContactStep \/ HomeStep \/ SampleUploadStep

SpecContact == Init /\ [][NextContact]_vars

----------------------------------------------------------------------------
(* delete_project() under a server that answers requests concurrently:    *)
(* each worker runs the handler in its own database session, and the      *)
(* steps that touch the database interleave.                              *)

InFlight(w) == wk[w].pc \in {"lookup", "commit"}

\* The request arrives and the gate is evaluated (no database access).
DeleteReceive(w, key, project_id) ==
    /\ wk[w].pc \in {"idle", "done"}
    /\ LET others == { o \in Workers \ {w} :
                         InFlight(o) /\ wk[o].project_id = project_id }
           mine == [IdleWorker EXCEPT
                       !.project_id = project_id,
                       !.existed = (project_id \in Ids(projects)),
                       !.raced = isAdmin(key) /\ others # {}]
       IN wk' = [o \in Workers |->
                   IF o = w
                   THEN IF ~isAdmin(key)
                        THEN [mine EXCEPT !.pc = "done", !.status = HTTP_FORBIDDEN]
                        ELSE [mine EXCEPT !.pc = "lookup"]
                   ELSE IF isAdmin(key) /\ o \in others
                        THEN [wk[o] EXCEPT !.raced = TRUE]
                        ELSE wk[o]]
    /\ UNCHANGED <<backend, projects, idseq, blobs, outbox, req, resp>>

\* Project.query.get_or_404(project_id)
DeleteLookup(w) ==
    /\ wk[w].pc = "lookup"
    /\ LET found == GetById(projects, wk[w].project_id) IN
       wk' = [wk EXCEPT ![w] =
                IF found = {}
                THEN [@ EXCEPT !.pc = "done", !.status = HTTP_NOT_FOUND]
                ELSE [@ EXCEPT !.pc = "commit", !.row = found]]
    /\ UNCHANGED <<backend, projects, idseq, blobs, outbox, req, resp>>

\* db.session.delete(project); db.session.commit(); redirect. A DELETE that
\* matches no row (the row went since the lookup) makes the ORM warn, and
\* the commit succeeds.
DeleteCommit(w) ==
    /\ wk[w].pc = "commit"
    /\ projects' = DeleteProject(projects, CHOOSE p \in wk[w].row : TRUE)
    /\ wk' = [wk EXCEPT ![w] = [@ EXCEPT !.pc = "done", !.status = HTTP_REDIRECT]]
    /\ UNCHANGED <<backend, idseq, blobs, outbox, req, resp>>

\* Uploads fill the store while no delete is in flight.
QuietUploadStep ==
    /\ \A w \in Workers : ~InFlight(w)
    /\ \E t \in {"My App", "Other"} :
          Admin(Request("admin", "POST", ADMIN_SECRET, TRUE,
                        UploadForm("https://example.com", t, "A demo", PhotoPng), 0))

DeleteReceiveStep == \E w \in Workers, k \in AdminKeys, id \in RequestIds :
                        DeleteReceive(w, k, id)
DeleteLookupStep == \E w \in Workers : DeleteLookup(w)
DeleteCommitStep == \E w \in Workers : DeleteCommit(w)

NextConc == QuietUploadStep \/ DeleteReceiveStep \/ DeleteLookupStep \/ DeleteCommitStep

SpecConc == Init /\ [][NextConc]_vars

----------------------------------------------------------------------------
(* The claims' vocabulary, stated apart from the handlers' own operators *)

\* The part of a filename after its last dot (empty when it has none).
Extension(s) ==
    LET dots == { i \in 1..Len(s) : s[i] = "." } IN
    IF dots = {} THEN <<>> ELSE SubSeq(s, MaxOf(dots) + 1, Len(s))

\* A text field that was sent and holds more than whitespace.
NonEmpty(x) == x \notin {NoData, "", " "}

\* The request carries the admin secret.
Authorized(r) == r.admin = "1234"

\* A submitted upload form (POST, with the form's token).
Submitted(r) == r.method = "POST" /\ r.csrf

\* The upload inputs are valid: the three texts non-empty, the image present
\* with an extension among jpg, jpeg, png.
ValidUploadInputs(f) ==
    /\ NonEmpty(f.project_url) /\ NonEmpty(f.title) /\ NonEmpty(f.description)
    /\ f.image.present
    /\ Extension(f.image.filename) \in { <<"j","p","g">>, <<"j","p","e","g">>, <<"p","n","g">> }

\* The upload inputs fail validation: a text missing or empty, the image
\* missing, or its extension (compared without regard to case) not among jpg,
\* jpeg, png.
InvalidUploadInputs(f) ==
    \/ ~NonEmpty(f.project_url) \/ ~NonEmpty(f.title) \/ ~NonEmpty(f.description)
    \/ ~f.image.present
    \/ Extension(Lower(f.image.filename))
          \notin { <<"j","p","g">>, <<"j","p","e","g">>, <<"p","n","g">> }

\* A contact form with one of name, email, message missing or empty.
MissingContactInputs(f) ==
    ~NonEmpty(f.name) \/ ~NonEmpty(f.email) \/ ~NonEmpty(f.message)

----------------------------------------------------------------------------
(* Claims *)

\* C1: a request to /admin or /delete/<id> whose admin parameter is absent
\* or differs from the secret is answered 403 Unauthorized, and neither the
\* Project table nor the object store changes, whatever the form or the id.
C1_GateBeforeEffects ==
    [][ (req'.op \in {"admin", "delete"} /\ ~Authorized(req'))
          => /\ resp'.status = 403
             /\ resp'.body = "Unauthorized"
             /\ resp'.blob = "none" /\ resp'.insert = "none"
             /\ projects' = projects
             /\ blobs' = blobs ]_vars

\* C1 witness: a delete of a stored id with the wrong key was refused, and
\* the row is still there.
C1_Witness ==
    /\ req.op = "delete" /\ req.admin = "wrong"
    /\ req.project_id \in Ids(projects)
    /\ resp.status = 403

\* C2: an authorized upload of valid inputs whose blob upload and insert
\* succeed leaves the table with exactly one more row, that row carrying the
\* submitted project_url, title and description and the resolved image, and
\* every earlier row unchanged; a list-all right after it returns that row.
C2_UploadCreatesOne ==
    [][ /\ ( /\ req'.op = "admin" /\ Authorized(req') /\ Submitted(req')
             /\ ValidUploadInputs(req'.form)
             /\ resp'.blob # "failed" /\ resp'.insert # "failed" )
          => /\ resp'.status = 302
             /\ Cardinality(projects') = Cardinality(projects) + 1
             /\ projects \subseteq projects'
             /\ \E p \in projects' \ projects :
                   /\ p.id \notin Ids(projects)
                   /\ p.project_url = req'.form.project_url
                   /\ p.title = req'.form.title
                   /\ p.description = req'.form.description
                   /\ p.image = resp'.image
                   /\ p.image = get_public_url(PublicUrlBucket,
                                               secure_filename(req'.form.image.filename))
        /\ ( /\ req.op = "admin" /\ resp.status = 302 /\ req'.op = "home" )
          => \E p \in resp'.listing :
                /\ p.project_url = req.form.project_url
                /\ p.title = req.form.title
                /\ p.description = req.form.description
                /\ p.image = resp.image ]_vars

\* C2 witness: the list-all after uploads shows two rows, one of them the
\* upload of title "Other".
C2_Witness ==
    /\ req.op = "home"
    /\ Cardinality(resp.listing) = 2
    /\ \E p \in resp.listing : p.title = "Other" /\ p.description = "A demo"

\* C3: an authorized delete of an id the table does not hold is answered
\* 404 and leaves the table as it was, after any run of uploads and deletes.
C3_DeleteAbsent ==
    [][ ( /\ req'.op = "delete" /\ Authorized(req')
          /\ req'.project_id \notin Ids(projects) )
          => /\ resp'.status = 404
             /\ projects' = projects
             /\ Cardinality(projects') = Cardinality(projects) ]_vars

\* C3 witness: under the id sequence, an id handed out earlier and deleted
\* since is deleted again and answered 404, other rows being stored.
C3_Witness ==
    /\ req.op = "delete" /\ req.admin = "1234"
    /\ backend = "postgres"
    /\ req.project_id \in 1..idseq
    /\ req.project_id \notin Ids(projects)
    /\ projects # {}
    /\ resp.status = 404

\* C4: an authorized delete of a stored id removes the row with that id and
\* no other: the id is gone, the table is one row smaller, and every other
\* row is there with its five fields unchanged.
C4_DeleteExisting ==
    [][ ( /\ req'.op = "delete" /\ Authorized(req')
          /\ req'.project_id \in Ids(projects) )
          => /\ resp'.status = 302
             /\ req'.project_id \notin Ids(projects')
             /\ Cardinality(projects') = Cardinality(projects) - 1
             /\ projects' \subseteq projects
             /\ \A p \in projects : p.id # req'.project_id => p \in projects' ]_vars

\* C4 witness: a delete was answered with the redirect and left a row that
\* shares its title with another upload.
C4_Witness ==
    /\ req.op = "delete" /\ resp.status = 302
    /\ projects # {}
    /\ \E p \in projects : p.title = "My App"

\* C5: an authorized upload request that fails validation (a text missing
\* or empty, the image missing, its extension not among jpg, jpeg, png, or
\* the form not validating for any other reason) gets the form again and has
\* no side effect: no blob is written and no row inserted.
C5_InvalidUploadNoEffect ==
    [][ ( /\ req'.op = "admin" /\ Authorized(req')
          /\ (InvalidUploadInputs(req'.form) \/ ~UploadProject_validate(req')) )
          => /\ resp'.status = 200
             /\ resp'.body = "admin.html"
             /\ resp'.blob = "none" /\ resp'.insert = "none"
             /\ blobs' = blobs
             /\ projects' = projects ]_vars

\* C5 witness: an authorized, submitted form with a .txt image came back as
\* the form, beside a store that holds rows and blobs.
C5_Witness ==
    /\ req.op = "admin" /\ req.admin = "1234" /\ req.method = "POST" /\ req.csrf
    /\ req.form.image = NotesTxt
    /\ resp.status = 200
    /\ projects # {} /\ blobs # {}

\* C6: in an upload the blob write comes before the insert: a request that
\* inserts a row has written its blob, under its sanitized key, and a request
\* whose blob upload fails ends in an error with no row created.
C6_BlobBeforeInsert ==
    [][ req'.op = "admin"
          => /\ (projects' # projects \/ resp'.insert # "none")
                   => /\ resp'.blob = "ok"
                      /\ \E b \in blobs' :
                            b.key = secure_filename(req'.form.image.filename)
             /\ resp'.blob = "failed"
                   => /\ resp'.status = 500
                      /\ resp'.insert = "none"
                      /\ projects' = projects ]_vars

\* C6 witness: an upload failed at the blob store and ended in the error,
\* beside rows that earlier uploads stored.
C6_Witness ==
    /\ req.op = "admin"
    /\ resp.blob = "failed" /\ resp.status = 500
    /\ projects # {}

\* C7: a contact request with name, email or message missing or empty never
\* reaches the mailer: no send is attempted, the form is rendered again and
\* the Project table is untouched; a send is attempted only for a request
\* whose three fields all passed validation.
C7_InvalidContactNoMail ==
    [][ req'.op = "contact"
          => /\ MissingContactInputs(req'.form)
                   => /\ resp'.dispatch = "none"
                      /\ outbox' = outbox
                      /\ resp'.status = 200 /\ resp'.body = "contact.html"
             /\ resp'.dispatch # "none"
                   => NonEmpty(req'.form.name) /\ NonEmpty(req'.form.email)
                        /\ NonEmpty(req'.form.message)
             /\ projects' = projects ]_vars

\* C7 witness: a contact form without its email was rendered again, beside a
\* stored project and an earlier delivered message.
C7_Witness ==
    /\ req.op = "contact" /\ req.method = "POST" /\ req.csrf
    /\ req.form.email = ""
    /\ resp.status = 200 /\ resp.dispatch = "none"
    /\ projects # {} /\ outbox # {}

\* C8: a valid contact request ends as the mailer decides: a failed send is
\* caught, flagged as a failure and the form rendered, with no error
\* response; a successful send is flagged as a success and redirected. The
\* success flag never goes with a failed send nor the failure flag with a
\* successful one.
C8_ContactOutcome ==
    [][ ( /\ req'.op = "contact" /\ Submitted(req')
          /\ ~MissingContactInputs(req'.form) )
          => /\ resp'.dispatch \in {"ok", "failed"}
             /\ resp'.status # 500
             /\ resp'.dispatch = "failed"
                   => /\ resp'.flash = {"danger"}
                      /\ resp'.status = 200 /\ resp'.body = "contact.html"
                      /\ outbox' = outbox
             /\ resp'.dispatch = "ok"
                   => /\ resp'.flash = {"success"}
                      /\ resp'.status = 302 /\ resp'.body = "redirect:home"
                      /\ \E m \in outbox' : m.reply_to = <<req'.form.email>> ]_vars

\* C8 witness: the send for Ada's message failed and the form came back with
\* the failure flag.
C8_Witness ==
    /\ req.op = "contact"
    /\ req.form = ContactForm("Ada", "ada@example.com", "Hi")
    /\ resp.dispatch = "failed"
    /\ resp.flash = {"danger"} /\ resp.status = 200

\* C9: the image of every stored Project is the public URL of a blob the
\* object store holds: the URL names the bucket and key the upload wrote.
C9_ImageUrlResolves ==
    \A p \in projects : UrlResolves(blobs, p.image)

\* Two authorized deletes of the same stored id that were in flight together
\* and have both been answered.
RacePair(a, b) ==
    /\ a # b
    /\ wk[a].pc = "done" /\ wk[b].pc = "done"
    /\ wk[a].raced /\ wk[b].raced
    /\ wk[a].project_id = wk[b].project_id
    /\ wk[a].existed /\ wk[b].existed
    /\ wk[a].status # 403 /\ wk[b].status # 403

\* C10 as claimed: of two concurrent authorized deletes of the same stored
\* id, whatever the interleaving, one is answered with the redirect and the
\* other with 404.
C10_OneRedirectOneNotFound ==
    \A a \in Workers, b \in Workers :
        RacePair(a, b)
          => {wk[a].status, wk[b].status} = {302, 404}

\* C10 as amended: of two concurrent authorized deletes of the same stored
\* id, at least one is answered with the redirect; the other is answered 404
\* when its lookup found no row, and with the redirect as well when both
\* lookups ran before either commit. After each commit the row is gone, and
\* a commit removes no row but the one with the request's id.
C10_RaceOutcomes ==
    /\ [](\A a \in Workers, b \in Workers :
            RacePair(a, b)
              => /\ wk[a].status = 302 \/ wk[b].status = 302
                 /\ {wk[a].status, wk[b].status} \subseteq {302, 404}
                 /\ wk[a].status = 404 <=> wk[a].row = {})
    /\ [][\A w \in Workers :
            (wk[w].pc = "commit" /\ wk'[w].pc = "done")
              => /\ projects' \subseteq projects
                 /\ \A p \in projects \ projects' : p.id = wk[w].project_id
                 /\ wk[w].project_id \notin Ids(projects')]_vars

\* C10 witness: both deletes of the race were answered with the redirect,
\* and another row is still stored.
C10_Witness ==
    /\ RacePair(1, 2)
    /\ wk[1].status = 302 /\ wk[2].status = 302
    /\ projects # {}

====
